---- MODULE Spec2Model ----
(***************************************************************************)
(* Model of ctx-zip's tool-results compactor: the boundary window, the     *)
(* write-tool-results-to-file strategy, the file adapters' key resolution, *)
(* the known-key registry and the reader tools (readFile,                  *)
(* grepAndSearchFile).                                                     *)
(*                                                                         *)
(* JavaScript values are records tagged by k: "undefined", "null",         *)
(* "number", "string" or "object".  A string is a sequence of tokens; a    *)
(* template literal is the concatenation of its pieces, startsWith is a    *)
(* prefix test on tokens.  An object carries the fields the strategy       *)
(* sniffs (type, value, text, fileName, key, storage, content) and a       *)
(* payload tag; an absent field is Undef.                                  *)
(***************************************************************************)
EXTENDS Integers, Sequences, FiniteSets, TLC

VARIABLES
    messages,   \* the caller's message array; its message and part objects are the ones the returned array holds
    options,    \* the options every compact call of the behaviour passes
    via,        \* "compact": through compact(); "strategy": writeToolResultsToFileStrategy called directly
    storage,    \* the files: full path -> persisted record
    knownKeys,  \* the known-key registry: a set of <<storage URI, key>>
    calls,      \* number of compact calls made so far
    last,       \* the last compact call: its input, outcome, writes, rejected write and window
                \* (and, for a call on a copy of the array, the files it left)
    prev,       \* the compact call before the last
    window,     \* the window detectWindowRange last computed
    toolOut,    \* the last reader-tool execute: its arguments and result
    formatted,  \* the written references built so far: adapter URI, key and text
    writers,    \* concurrent compact calls: the writes each has still to do, its position in the
                \* current one, the writes that resolved and the references it installed
    disk,       \* the files those calls write, block by block: full path -> blocks
    finished,   \* full path -> the record of the adapter.write that resolved last
    resolved    \* the last resolveKey call: adapter, name, key and the path a write of the key uses

ioVars == <<writers, disk, finished, resolved>>

vars ==
    <<messages, options, via, storage, knownKeys, calls, last, prev, window, toolOut, formatted,
      ioVars>>

(***************************************************************************)
(* Bounds                                                                  *)
(***************************************************************************)
MaxLen == 3
MaxCalls == 2
MaxFail == 2
MaxWindowLen == 5
MaxKnown == 1
MaxFormats == 2
MaxConcurrent == 2
MaxNameLen == 3

Min(a, b) == IF a < b THEN a ELSE b
Max(a, b) == IF a > b THEN a ELSE b

(***************************************************************************)
(* JavaScript values                                                       *)
(***************************************************************************)
Undef == [k |-> "undefined"]
Null == [k |-> "null"]
Num(n) == [k |-> "number", n |-> n]
Str(s) == [k |-> "string", s |-> s]
Obj(tag) ==
    [k |-> "object", tag |-> tag, type |-> Undef, value |-> Undef, text |-> Undef,
     fileName |-> Undef, key |-> Undef, storage |-> Undef, content |-> Undef]

Truthy(v) ==
    \/ v.k = "object"
    \/ v.k = "string" /\ v.s # <<>>
    \/ v.k = "number" /\ v.n # 0

IsString(v) == v.k = "string"
IsObject(v) == v.k = "object"

\* property read v.f: undefined on a primitive
Get(v, f) == IF v.k = "object" THEN v[f] ELSE Undef

\* String.prototype.startsWith
StartsWith(s, prefix) ==
    /\ Len(s) >= Len(prefix)
    /\ SubSeq(s, 1, Len(prefix)) = prefix

\* s.replace(/\/$/, "")
StripTrailingSlash(s) ==
    IF Len(s) > 0 /\ s[Len(s)] = "/" THEN SubSeq(s, 1, Len(s) - 1) ELSE s

WrittenPrefix == <<"Written to file:">>
ReadPrefix == <<"Read from file:">>

(***************************************************************************)
(* Messages and content parts                                              *)
(***************************************************************************)
TextPart(s) == [type |-> "text", text |-> Str(s)]
ToolCallPart(id, name) == [type |-> "tool-call", toolCallId |-> id, toolName |-> name]
ToolResultPart(id, name, out) ==
    [type |-> "tool-result", toolCallId |-> id, toolName |-> name, output |-> out]
Parts(ps) == [k |-> "array", parts |-> ps]
Msg(role, content) == [role |-> role, content |-> content]

messageHasTextContent(m) ==
    \/ m.content.k = "string"
    \/ /\ m.content.k = "array"
       /\ \E j \in 1..Len(m.content.parts) :
            /\ m.content.parts[j].type = "text"
            /\ m.content.parts[j].text.k = "string"

isToolMessage(m) == m.role = "tool" /\ m.content.k = "array"

\* the guard without its role test
BrokenEndsWithAssistantText(msgs) ==
    /\ Len(msgs) > 0
    /\ messageHasTextContent(msgs[Len(msgs)])

endsWithAssistantText(msgs) ==
    /\ Len(msgs) > 0
    /\ msgs[Len(msgs)].role = "assistant"
    /\ messageHasTextContent(msgs[Len(msgs)])

(***************************************************************************)
(* Boundary and window (indices are the code's, 0-based)                   *)
(***************************************************************************)
All == [type |-> "all", count |-> 0]
KeepFirst(n) == [type |-> "keep-first", count |-> n]
KeepLast(n) == [type |-> "keep-last", count |-> n]
SinceLastTurn == [type |-> "since-last-turn", count |-> 0]

\* the scan of detectWindowStart: the index after the last user or assistant
\* message with text content that precedes position i (0-based), or 0
RECURSIVE scanWindowStart(_, _)
scanWindowStart(msgs, i) ==
    IF i < 0 THEN 0
    ELSE IF msgs[i + 1].role \in {"assistant", "user"} /\ messageHasTextContent(msgs[i + 1])
    THEN i + 1
    ELSE scanWindowStart(msgs, i - 1)

detectWindowStart(msgs, boundary) ==
    IF boundary.type = "keep-first"
    THEN Min(Max(0, boundary.count), Max(0, Len(msgs) - 1))
    ELSE IF boundary.type = "keep-last" THEN 0
    ELSE IF boundary.type = "all" THEN 0
    ELSE scanWindowStart(msgs, Len(msgs) - 2)

\* keep-first with a start that is not clamped to the last index
BrokenKeepFirstRange(msgs, boundary) ==
    LET len == Len(msgs) IN
    IF len <= 1 THEN [start |-> 0, endExclusive |-> 0]
    ELSE IF boundary.type = "keep-first" THEN
        LET n == Max(0, boundary.count)
        IN [start |-> n, endExclusive |-> Max(n, len - 1)]
    ELSE IF boundary.type = "keep-last" THEN
        LET n == Max(0, boundary.count)
        IN [start |-> 0, endExclusive |-> Max(0, Min(len - 1, len - n))]
    ELSE [start |-> 0, endExclusive |-> Max(0, len - 1)]

\* keep-last that counts the n messages before the final one
BrokenKeepLastRange(msgs, boundary) ==
    LET len == Len(msgs) IN
    IF len <= 1 THEN [start |-> 0, endExclusive |-> 0]
    ELSE IF boundary.type = "keep-first" THEN
        LET n == Max(0, boundary.count)
            startIndex == Min(n, len - 1)
        IN [start |-> startIndex, endExclusive |-> Max(startIndex, len - 1)]
    ELSE IF boundary.type = "keep-last" THEN
        LET n == Max(0, boundary.count)
        IN [start |-> 0, endExclusive |-> Max(0, Min(len - 1, len - n - 1))]
    ELSE [start |-> 0, endExclusive |-> Max(0, len - 1)]

\* the window with a default end that forgets the final message
BrokenDetectWindowRange(msgs, boundary) ==
    LET len == Len(msgs) IN
    IF len <= 1 THEN [start |-> 0, endExclusive |-> 0]
    ELSE IF boundary.type = "keep-first" THEN
        LET n == Max(0, boundary.count)
            startIndex == Min(n, len - 1)
        IN [start |-> startIndex, endExclusive |-> Max(startIndex, len - 1)]
    ELSE IF boundary.type = "keep-last" THEN
        LET n == Max(0, boundary.count)
        IN [start |-> 0, endExclusive |-> Max(0, Min(len - 1, len - n))]
    ELSE [start |-> 0, endExclusive |-> len]

\* counts are integers here, so Math.floor is the identity and every count is finite
detectWindowRange(msgs, boundary) ==
    LET len == Len(msgs) IN
    IF len <= 1 THEN [start |-> 0, endExclusive |-> 0]
    ELSE IF boundary.type = "keep-first" THEN
        LET n == Max(0, boundary.count)
            startIndex == Min(n, len - 1)
        IN [start |-> startIndex, endExclusive |-> Max(startIndex, len - 1)]
    ELSE IF boundary.type = "keep-last" THEN
        LET n == Max(0, boundary.count)
        IN [start |-> 0, endExclusive |-> Max(0, Min(len - 1, len - n))]
    ELSE [start |-> 0, endExclusive |-> Max(0, len - 1)]

(***************************************************************************)
(* File adapters: key resolution and URI                                   *)
(***************************************************************************)
IsDots(tok) == tok \in {".", "..", "..."}

\* name.replace(/\\/g, "/")
RECURSIVE ReplaceBackslashes(_)
ReplaceBackslashes(s) ==
    IF s = <<>> THEN <<>>
    ELSE <<IF Head(s) = "\\" THEN "/" ELSE Head(s)>> \o ReplaceBackslashes(Tail(s))

\* length of the run of dot tokens that starts s
RECURSIVE DotRun(_)
DotRun(s) == IF s # <<>> /\ IsDots(Head(s)) THEN 1 + DotRun(Tail(s)) ELSE 0

\* s.replace(/\.+\//g, ""): every run of dots followed by a slash is removed, left to right
RECURSIVE RemoveDotSlash(_)
RemoveDotSlash(s) ==
    IF s = <<>> THEN <<>>
    ELSE LET r == DotRun(s) IN
         IF r > 0 /\ Len(s) > r /\ s[r + 1] = "/"
         THEN RemoveDotSlash(SubSeq(s, r + 2, Len(s)))
         ELSE <<Head(s)>> \o RemoveDotSlash(Tail(s))

RECURSIVE Join(_, _)
Join(parts, sep) ==
    IF parts = <<>> THEN <<>>
    ELSE IF Len(parts) = 1 THEN parts[1]
    ELSE parts[1] \o sep \o Join(Tail(parts), sep)

resolveKey(adapter, name) ==
    LET safe == RemoveDotSlash(ReplaceBackslashes(name))
        p1 == IF adapter.prefix # <<>> THEN <<StripTrailingSlash(adapter.prefix)>> ELSE <<>>
        p2 == IF adapter.sessionId # <<>> THEN <<adapter.sessionId, <<"tool-results">>>> ELSE <<>>
    IN Join(p1 \o p2 \o <<safe>>, <<"/">>)

adapterToString(adapter) ==
    IF adapter.cls = "SandboxFileAdapter" THEN <<"sandbox://">> \o adapter.sandboxId
    ELSE IF adapter.cls = "LocalFileAdapter" THEN
        <<"file://">> \o Join(<<adapter.baseDir>>
                               \o (IF adapter.prefix # <<>> THEN <<adapter.prefix>> ELSE <<>>),
                               <<"/">>)
    ELSE
        <<"file://">> \o Join(<<adapter.baseDir>>
                               \o (IF adapter.prefix # <<>> THEN <<adapter.prefix>> ELSE <<>>)
                               \o (IF adapter.sessionId # <<>>
                                   THEN <<adapter.sessionId, <<"tool-results">>>> ELSE <<>>),
                               <<"/">>)

\* where adapter.write / adapter.readText put and look for a key
fullPath(adapter, key) == adapter.baseDir \o <<"/">> \o key

\* the segments of a path: the runs of tokens between its slashes
RECURSIVE Segments(_, _)
Segments(s, cur) ==
    IF s = <<>> THEN <<cur>>
    ELSE IF Head(s) = "/" THEN <<cur>> \o Segments(Tail(s), <<>>)
    ELSE Segments(Tail(s), Append(cur, Head(s)))

\* number of characters of a segment made of dots alone, 0 for any other segment
RECURSIVE DotCount(_)
DotCount(seg) ==
    IF seg = <<>> THEN 0
    ELSE IF ~IsDots(Head(seg)) THEN 0
    ELSE IF Len(seg) > 1 /\ DotCount(Tail(seg)) = 0 THEN 0
    ELSE Len(Head(seg)) + DotCount(Tail(seg))

\* path normalisation below a starting directory: '.' and empty segments are
\* dropped, '..' pops a segment or, with none left, leaves the directory
RECURSIVE Normalise(_, _)
Normalise(segs, at) ==
    IF segs = <<>> THEN at
    ELSE LET seg == Head(segs)
             dots == DotCount(seg)
         IN Normalise(Tail(segs),
                IF seg = <<>> \/ dots = 1 THEN at
                ELSE IF dots = 2 THEN
                    (IF at.below = <<>> THEN [at EXCEPT !.outside = TRUE]
                     ELSE [at EXCEPT !.below = SubSeq(@, 1, Len(@) - 1)])
                ELSE [at EXCEPT !.below = Append(@, seg)])

\* the file a write of the key goes to.  FileAdapter and LocalFileAdapter use
\* path.resolve(baseDir, key): an absolute key replaces the base directory.
\* SandboxFileAdapter uses `${workspacePath}/${key}`.  outside: the path is
\* not under the base directory; below: its segments from where it starts
pathResolve(adapter, key) ==
    Normalise(Segments(key, <<>>),
              [outside |-> adapter.cls # "SandboxFileAdapter" /\ key # <<>> /\ Head(key) = "/",
               below |-> <<>>])

formatStoragePathForDisplay(storageUri, key) ==
    IF storageUri = <<>> THEN key
    ELSE IF StartsWith(storageUri, <<"file://">>) \/ StartsWith(storageUri, <<"sandbox://">>)
    THEN StripTrailingSlash(storageUri) \o <<"/">> \o key
    ELSE storageUri \o <<":">> \o key

TextOutput(s) == [Obj("out") EXCEPT !.type = Str(<<"text">>), !.value = Str(s)]

WrittenReference(adapterUri, key) ==
    <<"Written to file:", " ">> \o formatStoragePathForDisplay(adapterUri, key)
    \o <<". Key: ">> \o key
    \o <<". Use the read/search tools to inspect its contents.">>

(***************************************************************************)
(* writeToolResultsToFileStrategy, one tool-result part at a time          *)
(***************************************************************************)
NoFile == [k |-> "nofile"]

\* fileReaderTools the strategy uses: the configured names, or the default
configuredNames(opts) ==
    IF opts.fileReaderTools # <<>> THEN opts.fileReaderTools ELSE <<"readFile">>

isFileReaderPart(part, opts) ==
    /\ part.toolName # ""
    /\ \E n \in 1..Len(configuredNames(opts)) : configuredNames(opts)[n] = part.toolName

\* the reference a reader tool's result is replaced with
readerDisplay(output) ==
    LET d1 == IF IsObject(output) /\ Get(output, "value") # Undef
              THEN Get(output, "value") ELSE output
        d2 == IF Truthy(d1) /\ IsObject(d1) /\ Get(d1, "text") # Undef
              THEN Get(d1, "text") ELSE d1
        isObj == Truthy(d2) /\ IsObject(d2)
        fileName == IF isObj /\ IsString(Get(d2, "fileName")) THEN Get(d2, "fileName") ELSE Undef
        key == IF isObj /\ IsString(Get(d2, "key")) THEN Get(d2, "key") ELSE Undef
        stor == IF isObj /\ IsString(Get(d2, "storage")) THEN Get(d2, "storage") ELSE Undef
    IN IF Truthy(stor) /\ Truthy(key)
       THEN <<"Read from file:", " ">> \o formatStoragePathForDisplay(stor.s, key.s)
            \o <<". Key: ">> \o key.s
       ELSE <<"Read from file:", " ">> \o (IF fileName = Undef THEN <<"<unknown>">> ELSE fileName.s)

\* the value extracted from a tool output for persistence
unwrapOutput(output) ==
    IF Truthy(output) /\ Get(output, "type") = Str(<<"json">>) /\ Get(output, "value") # Undef
    THEN Get(output, "value")
    ELSE IF Truthy(output) /\ Get(output, "type") = Str(<<"text">>) /\ IsString(Get(output, "text"))
    THEN Get(output, "text")
    ELSE output

isReferenceString(s) == StartsWith(s, WrittenPrefix) \/ StartsWith(s, ReadPrefix)

\* the reference test on the unwrapped string alone
BrokenAlreadyCompacted(output) ==
    LET v == unwrapOutput(output) IN IsString(v) /\ isReferenceString(v.s)

\* "Skip if this is already a reference (previously compacted)"
alreadyCompacted(output) ==
    LET v == unwrapOutput(output) IN
    IF IsString(v) THEN isReferenceString(v.s)
    ELSE /\ Truthy(output)
         /\ Get(output, "type") = Str(<<"text">>)
         /\ IsString(Get(output, "value"))
         /\ isReferenceString(Get(output, "value").s)

toolFileName(part) == <<IF part.toolName # "" THEN part.toolName ELSE "unknown", ".json">>

\* the loop body without its reader-tool branch
BrokenPartAction(part, opts) ==
    IF part.type # "tool-result" \/ ~Truthy(part.output) THEN "skip"
    ELSE IF ~Truthy(unwrapOutput(part.output)) THEN "skip"
    ELSE IF alreadyCompacted(part.output) THEN "skip"
    ELSE "write"

\* the loop body without its test of the unwrapped value
EagerPartAction(part, opts) ==
    IF part.type # "tool-result" \/ ~Truthy(part.output) THEN "skip"
    ELSE IF isFileReaderPart(part, opts) THEN "read"
    ELSE IF alreadyCompacted(part.output) THEN "skip"
    ELSE "write"

\* what the loop body does with one part: "skip", "read" (reader reference) or "write"
partAction(part, opts) ==
    IF part.type # "tool-result" \/ ~Truthy(part.output) THEN "skip"
    ELSE IF isFileReaderPart(part, opts) THEN "read"
    ELSE IF ~Truthy(unwrapOutput(part.output)) THEN "skip"
    ELSE IF alreadyCompacted(part.output) THEN "skip"
    ELSE "write"

PersistedToolResult(part, sessionId, uuid, now) ==
    [metadata |-> [toolName |-> IF part.toolName # "" THEN part.toolName ELSE "unknown",
                   timestamp |-> now,
                   toolCallId |-> IF part.toolCallId # "" THEN part.toolCallId ELSE uuid,
                   sessionId |-> sessionId],
     output |-> unwrapOutput(part.output)]

(***************************************************************************)
(* The rewrite loop                                                        *)
(***************************************************************************)
Put(f, key, v) == [x \in DOMAIN f \cup {key} |-> IF x = key THEN v ELSE f[x]]

\* a loop over every message from the window start, with no role test
BrokenVisits(msgs, boundary, i) ==
    /\ i >= detectWindowRange(msgs, boundary).start
    /\ msgs[i + 1].content.k = "array"

\* the loop body runs on the message at (0-based) index i
visits(msgs, boundary, i) ==
    LET w == detectWindowRange(msgs, boundary) IN
    /\ i >= w.start
    /\ i < Min(w.endExclusive, Len(msgs) - 1)
    /\ isToolMessage(msgs[i + 1])

\* the (message index, part index) pairs in the order the loops reach them
RECURSIVE PositionsFrom(_, _, _)
PositionsFrom(msgs, boundary, i) ==
    IF i >= Len(msgs) THEN <<>>
    ELSE (IF visits(msgs, boundary, i)
          THEN [j \in 1..Len(msgs[i + 1].content.parts) |-> <<i, j>>]
          ELSE <<>>)
         \o PositionsFrom(msgs, boundary, i + 1)

\* an iteration that gives every call its own file: {toolName}-{random id}.json
UniqueKeyStepPart(st, pos, opts, sessionId, uuid, now, failAt) ==
    LET i == pos[1]
        j == pos[2]
        part == st.msgs[i + 1].content.parts[j]
        act == partAction(part, opts)
        key == resolveKey(opts.adapter, <<part.toolName, "-", uuid, ".json">>)
    IN IF st.threw \/ act = "skip" THEN st
       ELSE IF act = "read" THEN
           [st EXCEPT !.msgs[i + 1].content.parts[j].output =
                          TextOutput(readerDisplay(part.output))]
       ELSE IF st.nWrites + 1 = failAt THEN
           [st EXCEPT !.nWrites = @ + 1, !.threw = TRUE, !.failed = pos]
       ELSE
           [st EXCEPT !.nWrites = @ + 1,
                      !.storage = Put(@, fullPath(opts.adapter, key),
                                      PersistedToolResult(part, sessionId, uuid, now)),
                      !.msgs[i + 1].content.parts[j].output =
                          TextOutput(WrittenReference(adapterToString(opts.adapter), key)),
                      !.written = @ \cup {[i |-> i, j |-> j, key |-> key, part |-> part]}]

\* an iteration that goes on after a rejected adapter.write
BrokenStepPart(st, pos, opts, sessionId, uuid, now, failAt) ==
    LET i == pos[1]
        j == pos[2]
        part == st.msgs[i + 1].content.parts[j]
        act == partAction(part, opts)
        key == resolveKey(opts.adapter, toolFileName(part))
    IN IF act = "skip" THEN st
       ELSE IF act = "read" THEN
           [st EXCEPT !.msgs[i + 1].content.parts[j].output =
                          TextOutput(readerDisplay(part.output))]
       ELSE IF st.nWrites + 1 = failAt THEN
           [st EXCEPT !.nWrites = @ + 1, !.threw = TRUE, !.failed = pos]
       ELSE
           [st EXCEPT !.nWrites = @ + 1,
                      !.storage = Put(@, fullPath(opts.adapter, key),
                                      PersistedToolResult(part, sessionId, uuid, now)),
                      !.msgs[i + 1].content.parts[j].output =
                          TextOutput(WrittenReference(adapterToString(opts.adapter), key)),
                      !.written = @ \cup {[i |-> i, j |-> j, key |-> key, part |-> part]}]

\* one iteration of the inner loop; failAt names the adapter.write call that rejects
stepPart(st, pos, opts, sessionId, uuid, now, failAt) ==
    LET i == pos[1]
        j == pos[2]
        part == st.msgs[i + 1].content.parts[j]
        act == partAction(part, opts)
        key == resolveKey(opts.adapter, toolFileName(part))
    IN IF st.threw \/ act = "skip" THEN st
       ELSE IF act = "read" THEN
           [st EXCEPT !.msgs[i + 1].content.parts[j].output =
                          TextOutput(readerDisplay(part.output))]
       ELSE IF st.nWrites + 1 = failAt THEN
           [st EXCEPT !.nWrites = @ + 1, !.threw = TRUE, !.failed = pos]
       ELSE
           [st EXCEPT !.nWrites = @ + 1,
                      !.storage = Put(@, fullPath(opts.adapter, key),
                                      PersistedToolResult(part, sessionId, uuid, now)),
                      !.msgs[i + 1].content.parts[j].output =
                          TextOutput(WrittenReference(adapterToString(opts.adapter), key)),
                      !.written = @ \cup {[i |-> i, j |-> j, key |-> key, part |-> part]}]

\* the iterations in order; each iteration's state is computed once (CHOOSE
\* from the singleton) before the next one starts
RECURSIVE runLoop(_, _, _, _, _, _, _)
runLoop(st, poss, opts, sessionId, uuid, now, failAt) ==
    IF poss = <<>> THEN st
    ELSE LET after == CHOOSE s \in {stepPart(st, Head(poss), opts, sessionId, uuid, now, failAt)} : TRUE
         IN runLoop(after, Tail(poss), opts, sessionId, uuid, now, failAt)

writeToolResultsToFileStrategy(msgs, opts, stor, uuid, now, failAt) ==
    LET st0 == [msgs |-> msgs, storage |-> stor, nWrites |-> 0, threw |-> FALSE,
                failed |-> <<>>, written |-> {}, window |-> [start |-> 0, endExclusive |-> 0]]
        sessionId == IF opts.sessionId # "" THEN opts.sessionId ELSE uuid
    IN IF ~endsWithAssistantText(msgs) THEN st0
       ELSE [runLoop(st0, PositionsFrom(msgs, opts.boundary, 0), opts, sessionId, uuid, now, failAt)
                EXCEPT !.window = detectWindowRange(msgs, opts.boundary)]

\* compact(): the strategy options it builds from the caller's
SandboxReaderTools == <<"sandbox_ls", "sandbox_cat", "sandbox_grep", "sandbox_find">>

compactOptions(opts) ==
    [opts EXCEPT !.fileReaderTools = SandboxReaderTools \o opts.fileReaderTools]

compact(msgs, opts, entry, stor, uuid, now, failAt) ==
    writeToolResultsToFileStrategy(
        msgs, IF entry = "compact" THEN compactOptions(opts) ELSE opts, stor, uuid, now, failAt)

(***************************************************************************)
(* Inputs: adapters, tool outputs, messages, options                       *)
(***************************************************************************)
LocalAdapter ==
    [cls |-> "LocalFileAdapter", baseDir |-> <<"/b">>, prefix |-> <<"compact">>,
     sessionId |-> <<"s1">>, sandboxId |-> <<>>, readText |-> TRUE]
\* createFileAdapter("file:///b")
BaseDirAdapter ==
    [cls |-> "FileAdapter", baseDir |-> <<"/b">>, prefix |-> <<>>,
     sessionId |-> <<>>, sandboxId |-> <<>>, readText |-> TRUE]
SandboxAdapter ==
    [cls |-> "SandboxFileAdapter", baseDir |-> <<"/ws">>, prefix |-> <<>>,
     sessionId |-> <<"s1">>, sandboxId |-> <<"sbx">>, readText |-> TRUE]

JsonOutput(v) == [Obj("out") EXCEPT !.type = Str(<<"json">>), !.value = v]
TextTextOutput(s) == [Obj("out") EXCEPT !.type = Str(<<"text">>), !.text = Str(s)]
Data(tag) == Obj(tag)
\* what readFile returns: {key, content, storage}
ReadFileResult(key, uri) ==
    [Obj("read") EXCEPT !.key = Str(key), !.storage = Str(uri), !.content = Str(<<"body">>)]
NamedFileResult(name) == [Obj("read") EXCEPT !.fileName = Str(name)]

UserText == Msg("user", Str(<<"hi">>))
AssistantText == Msg("assistant", Str(<<"done">>))
AssistantCall == Msg("assistant", Parts(<<ToolCallPart("c1", "f1")>>))
\* an assistant turn with text and a provider-executed tool result
AssistantMixed ==
    Msg("assistant", Parts(<<TextPart(<<"ok">>), ToolResultPart("c9", "f1", JsonOutput(Data("z")))>>))
ToolA == Msg("tool", Parts(<<ToolResultPart("c1", "f1", JsonOutput(Data("a")))>>))
ToolB ==
    Msg("tool", Parts(<<ToolResultPart("c2", "f1", JsonOutput(Data("b"))),
                        ToolResultPart("c3", "f2", TextOutput(<<"hello">>))>>))
\* a readFile result, and outputs the loop skips: a falsy value, a malformed
\* reference, a missing output; and a reader result that names only a file
ToolRead ==
    Msg("tool", Parts(<<ToolResultPart("c4", "readFile",
                            JsonOutput(ReadFileResult(<<"compact", "/", "f1.json">>,
                                                      <<"file://", "/b">>))),
                        ToolResultPart("c5", "f1", JsonOutput(Num(0))),
                        ToolResultPart("c6", "f1", TextTextOutput(<<"Written to file:", "junk">>)),
                        ToolResultPart("c7", "readFile", JsonOutput(NamedFileResult(<<"x.txt">>))),
                        ToolResultPart("c8", "f2", Undef)>>))

Catalogue ==
    {UserText, AssistantText, AssistantCall, AssistantMixed, ToolA, ToolB, ToolRead}

Arrays(S, n) == UNION {[1..m -> S] : m \in 0..n}

Options(boundary, readers, sessionId, adapter) ==
    [boundary |-> boundary, fileReaderTools |-> readers, sessionId |-> sessionId,
     adapter |-> adapter]

\* the calls the behaviours make: the entry point and the options passed to it
Configs ==
    { [via |-> "strategy", options |-> Options(All, <<>>, "S", LocalAdapter)],
      [via |-> "strategy", options |-> Options(KeepFirst(1), <<>>, "", LocalAdapter)],
      [via |-> "strategy", options |-> Options(SinceLastTurn, <<"readFile">>, "S", LocalAdapter)],
      [via |-> "compact", options |-> Options(All, <<>>, "", LocalAdapter)],
      [via |-> "compact", options |-> Options(KeepLast(2), <<"readFile">>, "S", LocalAdapter)],
      [via |-> "compact", options |-> Options(All, <<"readFile">>, "S", SandboxAdapter)] }

RandomIds == {"u1", "u2"}

NoCall ==
    [status |-> "none", input |-> <<>>, value |-> <<>>, nWrites |-> 0, written |-> {},
     failed |-> <<>>, files |-> [x \in {} |-> [k |-> "nofile"]], window |-> [start |-> 0, endExclusive |-> 0]]
NoToolOut == [tool |-> "none"]
NoFiles == [x \in {} |-> NoFile]

\* no concurrent calls are under way
NoResolve ==
    [called |-> FALSE, adapter |-> NoFile, name |-> <<>>, key |-> <<>>, again |-> <<>>,
     path |-> [outside |-> FALSE, below |-> <<>>]]

\* no concurrent calls are under way and no resolveKey call has been recorded
NoConcurrentWrites ==
    /\ writers = <<>>
    /\ disk = NoFiles
    /\ finished = NoFiles
    /\ resolved = NoResolve

(***************************************************************************)
(* Compaction                                                              *)
(***************************************************************************)
Init ==
    /\ messages \in Arrays(Catalogue, MaxLen)
    /\ \E c \in Configs : options = c.options /\ via = c.via
    /\ storage = NoFiles
    /\ knownKeys = {}
    /\ calls = 0
    /\ last = NoCall
    /\ prev = NoCall
    /\ window = [start |-> 0, endExclusive |-> 0]
    /\ toolOut = NoToolOut
    /\ formatted = <<>>
    /\ NoConcurrentWrites

\* One compact call on the caller's array.  The parts are rewritten in place
\* (part.output = ...), so the caller's array shows the rewrite whether the
\* call returns or throws.
Compact(uuid, now, failAt) ==
    /\ calls < MaxCalls
    /\ \E r \in {compact(messages, options, via, storage, uuid, now, failAt)} :
        /\ messages' = r.msgs
        /\ storage' = r.storage
        /\ window' = r.window
        /\ last' = [status |-> IF r.threw THEN "threw" ELSE "returned",
                    input |-> messages,
                    value |-> IF r.threw THEN <<>> ELSE r.msgs,
                    nWrites |-> r.nWrites,
                    written |-> r.written,
                    failed |-> r.failed,
                    files |-> NoFiles,
                    window |-> r.window]
    /\ prev' = last
    /\ calls' = calls + 1
    /\ UNCHANGED <<options, via, knownKeys, toolOut, formatted, ioVars>>

\* randomUUID() is drawn only when the session id or a tool call id is missing
DrawnIds ==
    IF \/ options.sessionId = ""
       \/ \E x \in 1..Len(messages) :
            /\ messages[x].content.k = "array"
            /\ \E j \in 1..Len(messages[x].content.parts) :
                 /\ messages[x].content.parts[j].type = "tool-result"
                 /\ messages[x].content.parts[j].toolCallId = ""
    THEN RandomIds ELSE {"u1"}

\* new Date() read during a call, counted from the first call: the clock
\* never runs backwards, and two calls may fall within the same millisecond
DrawnTimes == IF calls = 0 THEN {0} ELSE {calls - 1, calls}

CompactReturns == \E uuid \in DrawnIds, now \in DrawnTimes : Compact(uuid, now, 0)
\* one of the adapter.write calls the call makes rejects
CompactWriteFails ==
    /\ calls < MaxCalls
    /\ \E uuid \in DrawnIds, now \in DrawnTimes :
         \E whole \in {compact(messages, options, via, storage, uuid, now, 0)} :
            \E failAt \in 1..Min(MaxFail, whole.nWrites) : Compact(uuid, now, failAt)

Next == CompactReturns \/ CompactWriteFails

Spec == Init /\ [][Next]_vars

(***************************************************************************)
(* Properties of compaction                                                *)
(***************************************************************************)
Returned(c) == c.status = "returned"

\* the last call ran on the array the call before it returned
SecondPass == calls >= 2 /\ Returned(prev) /\ last.input = prev.value

\* i (0-based) lies in [window.start, min(window.endExclusive, len-1))
InWindow(c, i) ==
    /\ i >= c.window.start
    /\ i < Min(c.window.endExclusive, Len(c.input) - 1)

\* C1: compact(compact(M,O),O) equals compact(M,O), message by message and
\* part by part, for every M and O, reader-tool results included.
C1_Idempotence == (SecondPass /\ Returned(last)) => last.value = prev.value

\* C2: a compact call on the array a compact call with the same options
\* returned issues no adapter.write.
C2_NoWritesOnSecondPass == SecondPass => last.nWrites = 0

C2_Witness == SecondPass /\ Returned(last) /\ prev.nWrites > 0 /\ last.nWrites = 0

\* C5: when compact returns, every part it replaced with a written reference
\* carrying key k has at k a record holding that part's unwrapped output, tool
\* name and tool call id.
C5_Retrievable ==
    Returned(last) =>
        \A w \in last.written :
            LET path == fullPath(options.adapter, w.key) IN
            /\ path \in DOMAIN storage
            /\ storage[path].output = unwrapOutput(w.part.output)
            /\ storage[path].metadata.toolName = w.part.toolName
            /\ storage[path].metadata.toolCallId = w.part.toolCallId

\* C6: the last element of the returned array equals the last element of the
\* input and is never rewritten.
C6_FinalMessage ==
    Returned(last) =>
        /\ Len(last.value) = Len(last.input)
        /\ Len(last.input) > 0 => last.value[Len(last.input)] = last.input[Len(last.input)]
        /\ \A w \in last.written : w.i < Len(last.input) - 1

C6_Witness ==
    /\ Returned(last)
    /\ last.nWrites > 0
    /\ last.input[Len(last.input)] = AssistantMixed

\* C7: after a call, successful or failed, every part of the caller's input
\* array still carries its original output.
C7_NoAliasing == calls > 0 => messages = last.input

\* a message that differs from m at most in the outputs of its tool-result parts
SameButOutputs(m, n) ==
    /\ m.role = n.role
    /\ m.content.k = n.content.k
    /\ IF m.content.k # "array" THEN m = n
       ELSE /\ Len(m.content.parts) = Len(n.content.parts)
            /\ \A j \in 1..Len(m.content.parts) :
                 LET p == m.content.parts[j]
                     q == n.content.parts[j]
                 IN IF p.type = "tool-result" /\ q.type = "tool-result"
                    THEN [p EXCEPT !.output = q.output] = q
                    ELSE p = q

\* C8: the returned array has the length and roles of the input; messages
\* outside the window and non-tool messages are unchanged; inside the window
\* only outputs of tool-result parts change.
C8_Frame ==
    Returned(last) =>
        /\ Len(last.value) = Len(last.input)
        /\ \A x \in 1..Len(last.input) :
             /\ SameButOutputs(last.input[x], last.value[x])
             /\ (~InWindow(last, x - 1) \/ last.input[x].role # "tool")
                    => last.value[x] = last.input[x]

C8_Witness ==
    /\ Returned(last)
    /\ \E x \in 1..Len(last.input) : InWindow(last, x - 1) /\ last.value[x] # last.input[x]
    /\ \E x \in 1..Len(last.input) : ~InWindow(last, x - 1) /\ last.input[x] = ToolA

\* the last message is an assistant message carrying text content
LastIsAssistantText(msgs) ==
    /\ Len(msgs) > 0
    /\ msgs[Len(msgs)].role = "assistant"
    /\ \/ msgs[Len(msgs)].content.k = "string"
       \/ /\ msgs[Len(msgs)].content.k = "array"
          /\ \E j \in 1..Len(msgs[Len(msgs)].content.parts) :
                msgs[Len(msgs)].content.parts[j].type = "text"

\* C9: when the last message is not an assistant message carrying text (or
\* the array is empty), compact writes nothing, rewrites nothing and returns
\* the elements of the input.
C9_EntryGuard ==
    (calls > 0 /\ ~LastIsAssistantText(last.input)) =>
        /\ Returned(last)
        /\ last.nWrites = 0
        /\ last.value = last.input
        /\ messages = last.input

C9_Witness ==
    /\ calls > 0
    /\ ~LastIsAssistantText(last.input)
    /\ Len(last.input) = 3
    /\ last.input[1] = ToolA
    /\ last.input[3] \in {AssistantCall, UserText}
    /\ Returned(last)

(***************************************************************************)
(* Known-key registry and reader tools                                     *)
(***************************************************************************)
isKnownKey(reg, storageUri, key) == <<storageUri, key>> \in reg
registerKnownKey(reg, storageUri, key) == reg \cup {<<storageUri, key>>}

UnknownKeyText == <<"Tool cannot be used: unknown key.">>
NoReadTextText == <<"No readText method found in storage adapter.">>

InvalidRegexText == <<"Invalid regex: ", "SyntaxError">>
\* the Error node:fs rejects with when the file does not exist
NoEntryError == [k |-> "object", tag |-> "Error", message |-> <<"ENOENT">>]

\* adapter.readText({key}): the file's text, or a rejection when there is
\* none.  The adapters of the library reject with an Error; an adapter the
\* caller supplies may reject with no reason at all (Promise.reject()).
adapterReadText(stor, adapter, key) ==
    IF adapter.cls = "CustomAdapter"
    THEN [ok |-> FALSE, body |-> NoFile, reason |-> Undef]
    ELSE IF fullPath(adapter, key) \in DOMAIN stor
    THEN [ok |-> TRUE, body |-> stor[fullPath(adapter, key)], reason |-> Undef]
    ELSE [ok |-> FALSE, body |-> NoFile, reason |-> NoEntryError]

\* catch (err) { return {key, content: `<lead>${(err as Error).message}...`} }:
\* reading .message of undefined or null throws inside the handler
caughtResult(tool, adapter, key, pattern, known, lead, reason) ==
    IF reason \in {Undef, Null}
    THEN [tool |-> tool, adapter |-> adapter, key |-> key, pattern |-> pattern,
          known |-> known, kind |-> "throws", content |-> NoFile, read |-> TRUE]
    ELSE [tool |-> tool, adapter |-> adapter, key |-> key, pattern |-> pattern,
          known |-> known, kind |-> "error", content |-> <<lead>> \o reason.message,
          read |-> TRUE]

\* grepObject(adapter, key, regex): the matching lines of the file at key
grepObject(stor, adapter, key) == adapterReadText(stor, adapter, key)

ToolResult(tool, adapter, key, pattern, known, kind, content, read) ==
    [tool |-> tool, adapter |-> adapter, key |-> key, pattern |-> pattern,
     known |-> known, kind |-> kind, content |-> content, read |-> read]

\* readFile without its registry gate
BrokenReadFileExecute(reg, stor, adapter, key) ==
    LET r == adapterReadText(stor, adapter, key)
        known == isKnownKey(reg, adapterToString(adapter), key)
    IN IF r.ok THEN ToolResult("readFile", adapter, key, "", known, "content", r.body, TRUE)
       ELSE ToolResult("readFile", adapter, key, "", known, "error", NoFile, TRUE)

\* createReadFileTool(...).execute({key})
readFileExecute(reg, stor, adapter, key) ==
    LET known == isKnownKey(reg, adapterToString(adapter), key)
        r == adapterReadText(stor, adapter, key)
    IN IF ~known
       THEN ToolResult("readFile", adapter, key, "", known, "refusal", UnknownKeyText, FALSE)
       ELSE IF ~adapter.readText
       THEN ToolResult("readFile", adapter, key, "", known, "noReadText", NoReadTextText, FALSE)
       ELSE IF r.ok
       THEN ToolResult("readFile", adapter, key, "", known, "content", r.body, TRUE)
       ELSE caughtResult("readFile", adapter, key, "", known, "Error reading file: ", r.reason)

\* createGrepAndSearchFileTool(...).execute({key, pattern, flags})
grepAndSearchFileExecute(reg, stor, adapter, key, pattern) ==
    LET known == isKnownKey(reg, adapterToString(adapter), key)
        r == grepObject(stor, adapter, key)
    IN IF pattern = "invalid"
       THEN ToolResult("grepAndSearchFile", adapter, key, pattern, known, "invalidRegex",
                       InvalidRegexText, FALSE)
       ELSE IF ~known
       THEN ToolResult("grepAndSearchFile", adapter, key, pattern, known, "refusal",
                       UnknownKeyText, FALSE)
       ELSE IF r.ok
       THEN ToolResult("grepAndSearchFile", adapter, key, pattern, known, "matches", r.body, TRUE)
       ELSE caughtResult("grepAndSearchFile", adapter, key, pattern, known,
                         "Error searching file: ", r.reason)

\* a custom adapter that implements no readText
WriteOnlyAdapter == [BaseDirAdapter EXCEPT !.readText = FALSE]

\* a custom adapter whose readText rejects without a reason
BareRejectAdapter == [BaseDirAdapter EXCEPT !.cls = "CustomAdapter"]

ToolAdapters == {LocalAdapter, WriteOnlyAdapter, BareRejectAdapter}
\* the keys the model passes to the reader tools
ModelKeys == {resolveKey(LocalAdapter, <<"f1", ".json">>), <<"secret.txt">>}
Patterns == {"valid", "invalid"}

\* files on disk before the session starts
StrayFiles ==
    [x \in {fullPath(BaseDirAdapter, <<"secret.txt">>),
            fullPath(LocalAdapter, resolveKey(LocalAdapter, <<"f1", ".json">>))}
        |-> [metadata |-> [toolName |-> "old", timestamp |-> 0, toolCallId |-> "c0",
                           sessionId |-> "S0"],
             output |-> Data("old")]]

ScenarioA == <<UserText, AssistantCall, ToolA, AssistantText>>

ReaderConfigs ==
    { [via |-> "strategy", options |-> Options(All, <<>>, "S", LocalAdapter)],
      [via |-> "compact", options |-> Options(All, <<"readFile">>, "S", LocalAdapter)] }

InitReader ==
    /\ messages \in {ScenarioA, <<ToolRead, ToolB, AssistantText>>}
    /\ \E c \in ReaderConfigs : options = c.options /\ via = c.via
    /\ storage \in {NoFiles, StrayFiles}
    /\ knownKeys = {}
    /\ calls = 0
    /\ last = NoCall
    /\ prev = NoCall
    /\ window = [start |-> 0, endExclusive |-> 0]
    /\ toolOut = NoToolOut
    /\ formatted = <<>>
    /\ NoConcurrentWrites

RegisterKnownKey ==
    \E a \in ToolAdapters, key \in ModelKeys :
        /\ Cardinality(knownKeys) < MaxKnown
        /\ knownKeys' = registerKnownKey(knownKeys, adapterToString(a), key)
        /\ UNCHANGED <<messages, options, via, storage, calls, last, prev, window, toolOut, formatted, ioVars>>

ReadFile ==
    \E a \in ToolAdapters, key \in ModelKeys :
        /\ toolOut' = readFileExecute(knownKeys, storage, a, key)
        /\ UNCHANGED <<messages, options, via, storage, knownKeys, calls, last, prev, window, formatted, ioVars>>

GrepAndSearchFile ==
    \E a \in ToolAdapters, key \in ModelKeys, pattern \in Patterns :
        /\ toolOut' = grepAndSearchFileExecute(knownKeys, storage, a, key, pattern)
        /\ UNCHANGED <<messages, options, via, storage, knownKeys, calls, last, prev, window, formatted, ioVars>>

NextReader ==
    \/ CompactReturns
    \/ CompactWriteFails
    \/ RegisterKnownKey
    \/ ReadFile
    \/ GrepAndSearchFile

SpecReader == InitReader /\ [][NextReader]_vars

\* C3 as stated: a reader tool invoked with a key the registry does not hold
\* under the adapter's URI returns the unknown-key refusal and reads nothing.
C3_UnknownKeyRefused ==
    (toolOut.tool # "none" /\ ~toolOut.known) => (toolOut.kind = "refusal" /\ ~toolOut.read)

\* C3 amended: such a call reads nothing, and returns the unknown-key refusal
\* unless it is a grepAndSearchFile call with an invalid pattern, which
\* returns the invalid-regex result.
C3_UnknownKeyNoRead ==
    (toolOut.tool # "none" /\ ~toolOut.known) =>
        /\ ~toolOut.read
        /\ toolOut.kind =
              IF toolOut.tool = "grepAndSearchFile" /\ toolOut.pattern = "invalid"
              THEN "invalidRegex" ELSE "refusal"

C3_Witness ==
    /\ toolOut.tool = "readFile"
    /\ ~toolOut.known
    /\ toolOut.kind = "refusal"
    /\ fullPath(toolOut.adapter, toolOut.key) \in DOMAIN storage
    /\ knownKeys # {}

\* C4: once compact has written a tool output under key k through an adapter
\* with URI u, (u,k) is in the registry, and a reader-tool call with k on that
\* adapter is not refused.
C4_RegistryComplete ==
    Returned(last) =>
        \A w \in last.written :
            /\ isKnownKey(knownKeys, adapterToString(options.adapter), w.key)
            /\ readFileExecute(knownKeys, storage, options.adapter, w.key).kind # "refusal"

(***************************************************************************)
(* The window function on its own                                          *)
(***************************************************************************)
\* a conversation of n messages that ends with an assistant turn
Conversation(n) ==
    [x \in 1..n |-> IF x = n THEN AssistantText
                    ELSE IF x % 2 = 1 THEN UserText ELSE ToolA]

WindowBoundaries ==
    {All, SinceLastTurn}
    \cup {KeepFirst(n) : n \in -1..(MaxWindowLen + 1)}
    \cup {KeepLast(n) : n \in -1..(MaxWindowLen + 1)}

InitWindow ==
    /\ messages \in {Conversation(n) : n \in 0..MaxWindowLen}
    /\ options \in {Options(b, <<>>, "", LocalAdapter) : b \in WindowBoundaries}
    /\ via = "strategy"
    /\ storage = NoFiles
    /\ knownKeys = {}
    /\ calls = 0
    /\ last = NoCall
    /\ prev = NoCall
    /\ window = [start |-> 0, endExclusive |-> 0]
    /\ toolOut = NoToolOut
    /\ formatted = <<>>
    /\ NoConcurrentWrites

DetectWindow ==
    /\ calls = 0
    /\ window' = detectWindowRange(messages, options.boundary)
    /\ calls' = 1
    /\ UNCHANGED <<messages, options, via, storage, knownKeys, last, prev, toolOut, formatted, ioVars>>

SpecWindow == InitWindow /\ [][DetectWindow]_vars

\* C10: for an array of length L the window of boundary all is {0, L-1}
\* ({0,0} when L <= 1), the window of keep-first 0 is the window of all, and
\* the window of keep-last L is {0,0}.
C10_WindowCorrect ==
    calls = 1 =>
        LET L == Len(messages)
            whole == IF L <= 1 THEN [start |-> 0, endExclusive |-> 0]
                     ELSE [start |-> 0, endExclusive |-> L - 1]
        IN /\ options.boundary = All => window = whole
           /\ options.boundary = KeepFirst(0) => window = whole
           /\ options.boundary = KeepLast(L) => window = [start |-> 0, endExclusive |-> 0]

C10_Witness ==
    /\ calls = 1
    /\ Len(messages) >= 3
    /\ options.boundary = KeepLast(Len(messages))
    /\ window = [start |-> 0, endExclusive |-> 0]

(***************************************************************************)
(* Compaction of whole conversations under every boundary                  *)
(***************************************************************************)
SpecConversation == InitWindow /\ [][Next]_vars

Clamp(x, lo, hi) == Max(lo, Min(x, hi))

\* a call on an array of at least two messages that reached the window computation
WindowedCall(type) ==
    /\ calls > 0
    /\ options.boundary.type = type
    /\ Len(last.input) >= 2

\* C11: under keep-first n on an array of length len >= 2, for every integer
\* n, the window is {k, max(k, len-1)} with k = clamp(n, 0, len-1), and the
\* first min(n, len) messages are left as they were.
C11_KeepFirst ==
    WindowedCall("keep-first") =>
        LET len == Len(last.input)
            n == options.boundary.count
            k == Clamp(n, 0, len - 1)
        IN /\ last.window = [start |-> k, endExclusive |-> Max(k, len - 1)]
           /\ \A x \in 1..Min(n, len) : messages[x] = last.input[x]

C11_Witness ==
    /\ WindowedCall("keep-first")
    /\ Returned(last)
    /\ options.boundary.count = 2
    /\ Len(last.input) = 5
    /\ last.input[2] = ToolA /\ last.value[2] = ToolA
    /\ last.input[4] = ToolA /\ last.value[4] # ToolA

\* C12: under keep-last n on an array of length len >= 2, for every integer
\* n, the window is {0, clamp(len-k, 0, len-1)} with k = clamp(n, 0, len), and
\* the last max(n, 1) messages (all of them when n >= len) are left as they
\* were.
C12_KeepLast ==
    WindowedCall("keep-last") =>
        LET len == Len(last.input)
            n == options.boundary.count
            k == Clamp(n, 0, len)
            kept == IF n >= len THEN len ELSE Max(n, 1)
        IN /\ last.window = [start |-> 0, endExclusive |-> Clamp(len - k, 0, len - 1)]
           /\ \A x \in (len - kept + 1)..len : messages[x] = last.input[x]

C12_Witness ==
    /\ WindowedCall("keep-last")
    /\ Returned(last)
    /\ options.boundary.count = 2
    /\ Len(last.input) = 5
    /\ last.input[2] = ToolA /\ last.value[2] # ToolA
    /\ last.input[4] = ToolA /\ last.value[4] = ToolA

\* a returned keep-last 1 call on a five-message array that ends in assistant text
ScenarioC ==
    /\ calls > 0
    /\ Returned(last)
    /\ options.boundary = KeepLast(1)
    /\ Len(last.input) = 5
    /\ LastIsAssistantText(last.input)

\* C13 as stated: with keep-last 1 on a five-message array ending in
\* assistant text only indices [0,3) are eligible; the messages at indices 3
\* and 4 are returned untouched.
C13_ScenarioC ==
    ScenarioC =>
        /\ \A w \in last.written : w.i < 3
        /\ last.value[4] = last.input[4]
        /\ last.value[5] = last.input[5]

\* C13 amended: with keep-last 1 on a five-message array ending in assistant
\* text the window is {0, 4}: indices [0,4) are eligible, only the message at
\* index 4 is kept, and a tool message at index 3 with a fresh output is
\* rewritten.
C13_ScenarioCKeepsFinal ==
    ScenarioC =>
        /\ last.window = [start |-> 0, endExclusive |-> 4]
        /\ \A w \in last.written : w.i < 4
        /\ last.value[5] = last.input[5]
        /\ (last.input[4] = ToolA /\ prev = NoCall) => last.value[4] # last.input[4]

C13_Witness ==
    /\ ScenarioC
    /\ last.input[4] = ToolA
    /\ \E w \in last.written : w.i = 3
    /\ last.value[4] # ToolA

\* C14: under the since-last-turn boundary the window is {windowStart, len-1},
\* windowStart being the index after the last user or assistant message with
\* text at an index <= len-2 (0 when there is none), and no tool message
\* below windowStart is rewritten.
C14_SinceLastTurn ==
    (WindowedCall("since-last-turn") /\ Returned(last)) =>
        LET len == Len(last.input)
            windowStart == detectWindowStart(last.input, SinceLastTurn)
        IN /\ last.window = [start |-> windowStart, endExclusive |-> len - 1]
           /\ \A x \in 1..windowStart : last.value[x] = last.input[x]

(***************************************************************************)
(* Failure of a storage write                                              *)
(***************************************************************************)
\* position p comes before position q in the order the loops reach them
Before(p, q) == p[1] < q[1] \/ (p[1] = q[1] /\ p[2] < q[2])

\* C15: when an adapter.write rejects, the call rejects and returns no array,
\* that write is the last one attempted, every completed write precedes it,
\* and the part whose write failed and every later part keep their outputs.
C15_WriteFailureFatal ==
    last.status = "threw" =>
        /\ last.value = <<>>
        /\ last.failed # <<>>
        /\ last.nWrites = Cardinality(last.written) + 1
        /\ \A w \in last.written : Before(<<w.i, w.j>>, last.failed)
        /\ \A x \in 1..Len(last.input) :
             IF x - 1 > last.failed[1] \/ last.input[x].content.k # "array"
             THEN messages[x] = last.input[x]
             ELSE \A j \in 1..Len(last.input[x].content.parts) :
                    ~Before(<<x - 1, j>>, last.failed)
                        => messages[x].content.parts[j] = last.input[x].content.parts[j]

C15_Witness ==
    /\ last.status = "threw"
    /\ last.input = <<ToolA, ToolB, AssistantText>>
    /\ last.failed = <<1, 1>>
    /\ Cardinality(last.written) = 1
    /\ messages[2] = ToolB

(***************************************************************************)
(* Reader-tool results                                                     *)
(***************************************************************************)
\* the options the strategy runs with
EffectiveOptions == IF via = "compact" THEN compactOptions(options) ELSE options

\* the reader-tool names in force for the call
ReaderNames ==
    {configuredNames(EffectiveOptions)[n] : n \in 1..Len(configuredNames(EffectiveOptions))}

\* the object a tool output carries: its value when it has one, else itself
Payload(output) ==
    IF IsObject(output) /\ output.value # Undef THEN output.value ELSE output

\* the string field f that a tool output exposes, or Undef
Exposed(output, f) ==
    IF IsObject(Payload(output)) /\ IsString(Payload(output)[f]) THEN Payload(output)[f] ELSE Undef

\* the reference text expected for a reader-tool result
ExpectedReadReference(output) ==
    LET stor == Exposed(output, "storage")
        key == Exposed(output, "key")
        fileName == Exposed(output, "fileName")
    IN IF Truthy(stor) /\ Truthy(key)
       THEN <<"Read from file:", " ">> \o formatStoragePathForDisplay(stor.s, key.s)
            \o <<". Key: ">> \o key.s
       ELSE <<"Read from file:", " ">>
            \o (IF fileName = Undef THEN <<"<unknown>">> ELSE fileName.s)

\* C16: a returned call writes no tool-result part whose tool is a reader
\* tool, and every such part it processes (in the window, in a tool message,
\* with an output) carries afterwards the text output 'Read from file:
\* <display-path>. Key: <key>' when its output exposed storage and key, and
\* 'Read from file: <fileName or <unknown>>' otherwise.
C16_ReaderNeverPersisted ==
    Returned(last) =>
        /\ \A w \in last.written : w.part.toolName \notin ReaderNames
        /\ \A x \in 1..Len(last.input) :
             (InWindow(last, x - 1) /\ last.input[x].role = "tool"
                /\ last.input[x].content.k = "array") =>
                \A j \in 1..Len(last.input[x].content.parts) :
                    LET p == last.input[x].content.parts[j] IN
                    (p.type = "tool-result" /\ p.toolName \in ReaderNames /\ Truthy(p.output)) =>
                        last.value[x].content.parts[j].output
                            = TextOutput(ExpectedReadReference(p.output))

C16_Witness ==
    /\ Returned(last)
    /\ prev = NoCall
    /\ "readFile" \in ReaderNames
    /\ last.input = <<ToolRead, ToolB, AssistantText>>
    /\ last.nWrites = 2
    /\ last.value[1].content.parts[1].output =
          TextOutput(<<"Read from file:", " ", "file://", "/b", "/", "compact", "/", "f1.json",
                       ". Key: ", "compact", "/", "f1.json">>)
    /\ last.value[1].content.parts[4].output = TextOutput(<<"Read from file:", " ", "x.txt">>)

\* C17: a compact() call whose options carry no fileReaderTools treats the
\* results of the built-in readFile tool as reader-tool results: it writes
\* none of them to storage and replaces those it processes with a 'Read from
\* file:' reference.
C17_DefaultReaderTools ==
    (Returned(last) /\ via = "compact" /\ options.fileReaderTools = <<>>) =>
        /\ \A w \in last.written : w.part.toolName # "readFile"
        /\ \A x \in 1..Len(last.input) :
             (InWindow(last, x - 1) /\ last.input[x].role = "tool"
                /\ last.input[x].content.k = "array") =>
                \A j \in 1..Len(last.input[x].content.parts) :
                    LET p == last.input[x].content.parts[j] IN
                    (p.type = "tool-result" /\ p.toolName = "readFile" /\ Truthy(p.output)) =>
                        last.value[x].content.parts[j].output
                            = TextOutput(ExpectedReadReference(p.output))

(***************************************************************************)
(* The written reference as a function of the storage coordinates          *)
(***************************************************************************)
\* new LocalFileAdapter({baseDir: "/b", prefix: "compact/"})
SlashPrefixAdapter == [LocalAdapter EXCEPT !.prefix = <<"compact", "/">>]

ReferenceAdapters == {LocalAdapter, SlashPrefixAdapter, BaseDirAdapter, SandboxAdapter}
ReferenceFileNames == {<<"f1", ".json">>, <<"f2", ".json">>, <<"readFile", ".json">>}

InitReference ==
    /\ messages = <<>>
    /\ options = Options(All, <<>>, "", LocalAdapter)
    /\ via = "strategy"
    /\ storage = NoFiles
    /\ knownKeys = {}
    /\ calls = 0
    /\ last = NoCall
    /\ prev = NoCall
    /\ window = [start |-> 0, endExclusive |-> 0]
    /\ toolOut = NoToolOut
    /\ formatted = <<>>
    /\ NoConcurrentWrites

\* the reference the strategy installs after a write through adapter a of a
\* file named name
FormatReference ==
    \E a \in ReferenceAdapters, name \in ReferenceFileNames :
        /\ Len(formatted) < MaxFormats
        /\ formatted' = Append(formatted,
                [uri |-> adapterToString(a),
                 key |-> resolveKey(a, name),
                 text |-> WrittenReference(adapterToString(a), resolveKey(a, name))])
        /\ UNCHANGED <<messages, options, via, storage, knownKeys, calls, last, prev, window,
                       toolOut, ioVars>>

SpecReference == InitReference /\ [][FormatReference]_vars

\* C18: the 'Written to file:' reference determines the storage coordinates
\* it was built from, so that a parse can return {written, uri, key} for every
\* reference: two references with the same text have the same adapter URI
\* and the same key.
C18_RoundTrip ==
    \A a, b \in 1..Len(formatted) :
        formatted[a].text = formatted[b].text
            => (formatted[a].uri = formatted[b].uri /\ formatted[a].key = formatted[b].key)

(***************************************************************************)
(* Repeated calls on equal inputs                                          *)
(***************************************************************************)
InitDeterminism ==
    /\ messages \in {ScenarioA, <<ToolRead, ToolB, AssistantText>>, <<ToolA, UserText>>}
    /\ \E c \in Configs : options = c.options /\ via = c.via
    /\ storage \in {NoFiles, StrayFiles}
    /\ knownKeys = {}
    /\ calls = 0
    /\ last = NoCall
    /\ prev = NoCall
    /\ window = [start |-> 0, endExclusive |-> 0]
    /\ toolOut = NoToolOut
    /\ formatted = <<>>
    /\ NoConcurrentWrites

\* A compact call on a deep copy of the caller's array, against a storage in
\* the state the variable storage holds: the caller's array and that storage
\* state stay as they are, the call's array and files are recorded in last.
CompactCopy(uuid, now, failAt) ==
    /\ calls < MaxCalls
    /\ \E r \in {compact(messages, options, via, storage, uuid, now, failAt)} :
        /\ window' = r.window
        /\ last' = [status |-> IF r.threw THEN "threw" ELSE "returned",
                    input |-> messages,
                    value |-> IF r.threw THEN <<>> ELSE r.msgs,
                    nWrites |-> r.nWrites,
                    written |-> r.written,
                    failed |-> r.failed,
                    files |-> r.storage,
                    window |-> r.window]
    /\ prev' = last
    /\ calls' = calls + 1
    /\ UNCHANGED <<messages, storage, options, via, knownKeys, toolOut, formatted, ioVars>>

CompactCopyReturns == \E uuid \in DrawnIds, now \in DrawnTimes : CompactCopy(uuid, now, 0)
CompactCopyWriteFails ==
    /\ calls < MaxCalls
    /\ \E uuid \in DrawnIds, now \in DrawnTimes :
         \E whole \in {compact(messages, options, via, storage, uuid, now, 0)} :
            \E failAt \in 1..Min(MaxFail, whole.nWrites) : CompactCopy(uuid, now, failAt)

NextDeterminism == CompactCopyReturns \/ CompactCopyWriteFails

SpecDeterminism == InitDeterminism /\ [][NextDeterminism]_vars

\* C19: two compact calls with equal messages and options against equal
\* storage states return equal arrays and leave equal files: the same keys
\* with the same bodies.
C19_Determinism ==
    (calls >= 2 /\ Returned(last) /\ Returned(prev)) =>
        /\ last.value = prev.value
        /\ last.files = prev.files

\* the record without its timestamp
Untimed(rec) == [rec EXCEPT !.metadata.timestamp = 0]

\* C19 amended: two compact calls with equal messages and options against
\* equal storage states return equal arrays and write the same keys; the
\* records under a key have the same output and tool name, and, when the
\* options carry a session id and the parts carry tool call ids, differ in
\* nothing but metadata.timestamp.
C19_DeterminismButTimestamp ==
    (calls >= 2 /\ Returned(last) /\ Returned(prev)) =>
        /\ last.value = prev.value
        /\ DOMAIN last.files = DOMAIN prev.files
        /\ \A path \in DOMAIN last.files :
             /\ last.files[path].output = prev.files[path].output
             /\ last.files[path].metadata.toolName = prev.files[path].metadata.toolName
             /\ options.sessionId # "" => Untimed(last.files[path]) = Untimed(prev.files[path])

C19_Witness ==
    /\ calls >= 2
    /\ Returned(last)
    /\ Returned(prev)
    /\ options.sessionId # ""
    /\ last.nWrites > 0
    /\ last.value = prev.value
    /\ \E path \in DOMAIN last.files :
         last.files[path].metadata.timestamp # prev.files[path].metadata.timestamp

(***************************************************************************)
(* Concurrent compact calls on one adapter                                 *)
(*                                                                         *)
(* adapter.write is mkdir, then writeFile: the file is opened with         *)
(* truncation and the body is written from offset 0 through the call's own *)
(* descriptor.  The calls run on one event loop, and each of these steps   *)
(* of one call can fall between the steps of another.                      *)
(***************************************************************************)
\* the length of JSON.stringify(record) in blocks: a large payload takes more
\* blocks than a small one
BodySize(rec) == IF rec.output = Data("a") THEN 2 ELSE 1

\* the serialised body, block by block
Body(rec) == [n \in 1..BodySize(rec) |-> [of |-> rec, block |-> n]]

\* a write of body from offset 0 into a file that holds content
Overlay(body, content) ==
    IF Len(content) > Len(body)
    THEN body \o SubSeq(content, Len(body) + 1, Len(content))
    ELSE body

\* the adapter.write calls one compact call makes, in order
RECURSIVE writesAt(_, _, _, _, _, _)
writesAt(msgs, poss, opts, sessionId, uuid, now) ==
    IF poss = <<>> THEN <<>>
    ELSE LET part == msgs[Head(poss)[1] + 1].content.parts[Head(poss)[2]]
             rest == writesAt(msgs, Tail(poss), opts, sessionId, uuid, now)
         IN IF partAction(part, opts) = "write"
            THEN <<[path |-> fullPath(opts.adapter, resolveKey(opts.adapter, toolFileName(part))),
                    rec |-> PersistedToolResult(part, sessionId, uuid, now)]>> \o rest
            ELSE rest

pendingWrites(msgs, opts, uuid, now) ==
    IF ~endsWithAssistantText(msgs) THEN <<>>
    ELSE writesAt(msgs, PositionsFrom(msgs, opts.boundary, 0), opts,
                  IF opts.sessionId # "" THEN opts.sessionId ELSE uuid, uuid, now)

\* the arrays the concurrent calls are made on
ConcurrentInputs ==
    {<<ToolA, AssistantText>>, <<ToolB, AssistantText>>, <<ToolRead, ToolB, ToolA, AssistantText>>}

ConcurrentConfigs ==
    { [via |-> "strategy", options |-> Options(All, <<>>, "S", LocalAdapter)],
      [via |-> "compact", options |-> Options(KeepFirst(1), <<>>, "S", LocalAdapter)] }

InitConcurrent ==
    /\ messages = <<>>
    /\ \E c \in ConcurrentConfigs : options = c.options /\ via = c.via
    /\ storage = NoFiles
    /\ knownKeys = {}
    /\ calls = 0
    /\ last = NoCall
    /\ prev = NoCall
    /\ window = [start |-> 0, endExclusive |-> 0]
    /\ toolOut = NoToolOut
    /\ formatted = <<>>
    /\ \E inputs \in [1..MaxConcurrent -> ConcurrentInputs] :
         writers = [p \in 1..MaxConcurrent |->
                      [pending |-> pendingWrites(inputs[p], EffectiveOptions, "u1", p),
                       pc |-> "idle", done |-> <<>>, installed |-> <<>>]]
    /\ disk = NoFiles
    /\ finished = NoFiles
    /\ resolved = NoResolve

\* writeFile opens the file of the call's next write: the file is created or truncated
WriteOpen(p) ==
    /\ writers[p].pc = "idle"
    /\ writers[p].pending # <<>>
    /\ writers' = [writers EXCEPT ![p].pc = "open"]
    /\ disk' = Put(disk, Head(writers[p].pending).path, <<>>)
    /\ UNCHANGED <<messages, options, via, storage, knownKeys, calls, last, prev, window,
                   toolOut, formatted, finished, resolved>>

\* writeFile writes the body and closes; adapter.write resolves
WriteBody(p) ==
    /\ writers[p].pc = "open"
    /\ LET w == Head(writers[p].pending) IN
        /\ disk' = [disk EXCEPT ![w.path] = Overlay(Body(w.rec), @)]
        /\ finished' = Put(finished, w.path, w.rec)
        /\ writers' = [writers EXCEPT ![p].pc = "resolved", ![p].done = Append(@, w)]
    /\ UNCHANGED <<messages, options, via, storage, knownKeys, calls, last, prev, window,
                   toolOut, formatted, resolved>>

\* a reference installed while the write is still under way
BrokenInstallReference(p) ==
    /\ writers[p].pc = "open"
    /\ writers' = [writers EXCEPT ![p].pc = "idle",
                                   ![p].installed = Append(@, Head(writers[p].pending)),
                                   ![p].pending = Tail(@)]
    /\ UNCHANGED <<messages, options, via, storage, knownKeys, calls, last, prev, window,
                   toolOut, formatted, disk, finished, resolved>>

\* the await has returned: part.output becomes the written reference and the
\* loop goes on to the next part
InstallReference(p) ==
    /\ writers[p].pc = "resolved"
    /\ writers' = [writers EXCEPT ![p].pc = "idle",
                                   ![p].installed = Append(@, Head(writers[p].pending)),
                                   ![p].pending = Tail(@)]
    /\ UNCHANGED <<messages, options, via, storage, knownKeys, calls, last, prev, window,
                   toolOut, formatted, disk, finished, resolved>>

WriteOpens == \E p \in 1..MaxConcurrent : WriteOpen(p)
WriteBodies == \E p \in 1..MaxConcurrent : WriteBody(p)
InstallReferences == \E p \in 1..MaxConcurrent : InstallReference(p)

NextConcurrent == WriteOpens \/ WriteBodies \/ InstallReferences

SpecConcurrent == InitConcurrent /\ [][NextConcurrent]_vars

\* no call is in the middle of a write to path
Settled(path) ==
    \A p \in 1..Len(writers) :
        writers[p].pc = "open" => Head(writers[p].pending).path # path

\* C20: every persisted result of tool T lies under the one key
\* resolveKey('T.json'), and whenever no write to that key is under way, after
\* any sequence or interleaving of compact calls of the session, the file
\* holds exactly the complete record of the write that resolved last.
C20_LastWriterWins ==
    \A path \in DOMAIN finished :
        /\ path = fullPath(options.adapter,
                           resolveKey(options.adapter,
                                      <<finished[path].metadata.toolName, ".json">>))
        /\ Settled(path) => disk[path] = Body(finished[path])

(***************************************************************************)
(* Keys: session namespace, retry, distinctness                            *)
(***************************************************************************)
\* the key has the segments <id>/tool-results/ in it
UnderSession(key, id) ==
    \E n \in 1..(Len(key) - 3) :
        /\ key[n] = id
        /\ key[n + 1] = "/"
        /\ key[n + 2] = "tool-results"
        /\ key[n + 3] = "/"

\* C21: a compact call with options.sessionId = S stores every tool result it
\* persists under a key of the form .../S/tool-results/<file>, whatever
\* adapter is passed.
C21_SessionNamespace ==
    (Returned(last) /\ options.sessionId # "") =>
        \A w \in last.written : UnderSession(w.key, options.sessionId)

\* C22: when a call aborted on a rejected write and the call is made again on
\* the same array with the same options, the writes now resolving, the retry
\* returns the array, and leaves the files with the outputs and tool call
\* ids, that a call that never failed returns and leaves.
C22_RetrySafe ==
    (calls = 2 /\ prev.status = "threw" /\ Returned(last)) =>
        LET ref == compact(prev.input, options, via, NoFiles, "u1", 0, 0) IN
        /\ last.value = ref.msgs
        /\ DOMAIN storage = DOMAIN ref.storage
        /\ \A path \in DOMAIN storage :
             /\ storage[path].output = ref.storage[path].output
             /\ storage[path].metadata.toolCallId = ref.storage[path].metadata.toolCallId

\* C24: the parts one compact call persists target pairwise different keys.
C24_DistinctKeys ==
    Returned(last) =>
        \A w1, w2 \in last.written :
            (w1.i # w2.i \/ w1.j # w2.j) => w1.key # w2.key

(***************************************************************************)
(* Order of write and reference                                            *)
(***************************************************************************)
\* C23: a compact call installs the 'Written to file:' reference of a part
\* only after the adapter.write for that part has resolved: in every
\* reachable state the references a call has installed are writes of that
\* call that have resolved, in the same order.
C23_WriteBeforeReference ==
    \A p \in 1..Len(writers) :
        /\ Len(writers[p].installed) <= Len(writers[p].done)
        /\ \A n \in 1..Len(writers[p].installed) :
             /\ writers[p].installed[n] = writers[p].done[n]
             /\ writers[p].installed[n].path \in DOMAIN finished

C23_Witness ==
    \E p, q \in 1..Len(writers) :
        /\ writers[p].pc = "open"
        /\ writers[p].installed # <<>>
        /\ writers[q].pc = "resolved"
        /\ Len(writers[q].done) = Len(writers[q].installed) + 1

(***************************************************************************)
(* Outputs that already read as references                                 *)
(***************************************************************************)
\* the output is a string, a {type:'text', text} or a {type:'text', value}
\* whose text begins with 'Written to file:' or 'Read from file:'
HasReferenceText(output) ==
    \/ IsString(output) /\ isReferenceString(output.s)
    \/ /\ IsObject(output)
       /\ Get(output, "type") = Str(<<"text">>)
       /\ \/ IsString(Get(output, "text")) /\ isReferenceString(Get(output, "text").s)
          \/ IsString(Get(output, "value")) /\ isReferenceString(Get(output, "value").s)

\* the tool-result parts of the last call's input that already read as references
ReferencePositions ==
    {pos \in (0..(Len(last.input) - 1)) \X (1..5) :
        /\ last.input[pos[1] + 1].content.k = "array"
        /\ pos[2] <= Len(last.input[pos[1] + 1].content.parts)
        /\ last.input[pos[1] + 1].content.parts[pos[2]].type = "tool-result"
        /\ HasReferenceText(last.input[pos[1] + 1].content.parts[pos[2]].output)}

\* C25: a tool-result part whose output text begins with 'Written to file:'
\* or 'Read from file:' is treated as already compacted by every call: the
\* call does not fail on it, issues no adapter.write for it and leaves its
\* output as it was.
C25_PrefixTolerance ==
    calls > 0 =>
        \A pos \in ReferencePositions :
            /\ last.failed # pos
            /\ \A w \in last.written : <<w.i, w.j>> # pos
            /\ messages[pos[1] + 1].content.parts[pos[2]].output
                  = last.input[pos[1] + 1].content.parts[pos[2]].output

\* the same for the parts whose tool is not a reader tool
C25_NonReaderPrefixTolerance ==
    calls > 0 =>
        \A pos \in ReferencePositions :
            last.input[pos[1] + 1].content.parts[pos[2]].toolName \notin ReaderNames =>
                /\ last.failed # pos
                /\ \A w \in last.written : <<w.i, w.j>> # pos
                /\ messages[pos[1] + 1].content.parts[pos[2]].output
                      = last.input[pos[1] + 1].content.parts[pos[2]].output

(***************************************************************************)
(* Reader tools: failures in-band                                          *)
(***************************************************************************)
\* the reader-tool call returned a result carrying the text with this lead
ReturnedText(kind, lead) ==
    /\ toolOut.kind = kind
    /\ StartsWith(toolOut.content, lead)

\* what a reader-tool call that does not throw returns in each failure case
InBandFailures ==
    /\ (toolOut.tool = "grepAndSearchFile" /\ toolOut.pattern = "invalid") =>
          (ReturnedText("invalidRegex", <<"Invalid regex: ">>) /\ ~toolOut.read)
    /\ (toolOut.tool = "readFile" /\ toolOut.known /\ ~toolOut.adapter.readText) =>
          (ReturnedText("noReadText", NoReadTextText) /\ ~toolOut.read)
    /\ (toolOut.read /\ ~adapterReadText(storage, toolOut.adapter, toolOut.key).ok) =>
          ReturnedText("error", <<IF toolOut.tool = "readFile" THEN "Error reading file: "
                                  ELSE "Error searching file: ">>)

\* C26: execute of readFile and of grepAndSearchFile never throws: an
\* invalid pattern returns 'Invalid regex...' without any read, a missing
\* readText returns the no-readText text, and every adapter read error is
\* returned as result text.
C26_ReaderToolsFailInBand ==
    toolOut.tool # "none" => (toolOut.kind # "throws" /\ InBandFailures)

\* the same for the adapters that reject with an Error object
C26_ErrorObjectsInBand ==
    (toolOut.tool # "none" /\ toolOut.adapter.cls # "CustomAdapter") =>
        (toolOut.kind # "throws" /\ InBandFailures)

C26_ErrorObjectsReached ==
    /\ toolOut.tool = "readFile"
    /\ toolOut.known
    /\ toolOut.kind = "error"
    /\ toolOut.content = <<"Error reading file: ", "ENOENT">>

(***************************************************************************)
(* resolveKey on arbitrary names                                           *)
(***************************************************************************)
NameTokens == {".", "..", "/", "\\", "x"}
Names == UNION {[1..n -> NameTokens] : n \in 1..MaxNameLen}
\* createFileAdapter("file:///b") with a session id
SessionAdapter == [BaseDirAdapter EXCEPT !.sessionId = <<"s1">>]
KeyAdapters == {LocalAdapter, BaseDirAdapter, SessionAdapter, SandboxAdapter}

InitKeys ==
    /\ messages = <<>>
    /\ options = Options(All, <<>>, "S", LocalAdapter)
    /\ via = "strategy"
    /\ storage = NoFiles
    /\ knownKeys = {}
    /\ calls = 0
    /\ last = NoCall
    /\ prev = NoCall
    /\ window = [start |-> 0, endExclusive |-> 0]
    /\ toolOut = NoToolOut
    /\ formatted = <<>>
    /\ NoConcurrentWrites

\* adapter.resolveKey(name), and the path adapter.write({key}) then uses
ResolveKey ==
    \E a \in KeyAdapters, name \in Names :
        /\ ~resolved.called
        /\ resolved' = [called |-> TRUE, adapter |-> a, name |-> name,
                        key |-> resolveKey(a, name), again |-> <<>>,
                        path |-> pathResolve(a, resolveKey(a, name))]
        /\ UNCHANGED <<messages, options, via, storage, knownKeys, calls, last, prev, window,
                       toolOut, formatted, writers, disk, finished>>

\* the same call once more on the same adapter
ResolveKeyAgain ==
    /\ resolved.called
    /\ resolved.again = <<>>
    /\ resolved' = [resolved EXCEPT !.again = resolveKey(resolved.adapter, resolved.name)]
    /\ UNCHANGED <<messages, options, via, storage, knownKeys, calls, last, prev, window,
                   toolOut, formatted, writers, disk, finished>>

NextKeys == ResolveKey \/ ResolveKeyAgain

SpecKeys == InitKeys /\ [][NextKeys]_vars

\* the characters '../' occur in the key
HasParentSequence(key) ==
    \E n \in 2..Len(key) :
        /\ key[n] = "/"
        /\ \/ key[n - 1] \in {"..", "..."}
           \/ key[n - 1] = "." /\ n > 2 /\ IsDots(key[n - 2])

\* [prefix/][sessionId/tool-results/]
KeyLead(adapter) ==
    (IF adapter.prefix # <<>> THEN StripTrailingSlash(adapter.prefix) \o <<"/">> ELSE <<>>)
    \o (IF adapter.sessionId # <<>> THEN adapter.sessionId \o <<"/", "tool-results", "/">>
        ELSE <<>>)

\* a repeated call returns the same key, the key has no '../' and has the
\* form [prefix/][sessionId/tool-results/]<name>
KeyWellFormed ==
    /\ resolved.again # <<>> => resolved.again = resolved.key
    /\ ~HasParentSequence(resolved.key)
    /\ StartsWith(resolved.key, KeyLead(resolved.adapter))
    /\ \A n \in 1..Len(resolved.key) : resolved.key[n] # "\\"

\* C27: for every logical name, resolveKey returns the same key on every
\* call, the key holds no '../' sequence and has the form
\* [prefix/][sessionId/tool-results/]<name>, and the path the adapter
\* resolves the key to stays under the adapter's base directory.
C27_TraversalFree ==
    resolved.called => (KeyWellFormed /\ ~resolved.path.outside)

\* the part of C27 about the key's text alone
C27_KeyWellFormed == resolved.called => KeyWellFormed

C27_KeyWellFormedReached ==
    /\ resolved.called
    /\ resolved.adapter = LocalAdapter
    /\ resolved.name = <<"..", "\\", "x">>
    /\ resolved.key = <<"compact", "/", "s1", "/", "tool-results", "/", "x">>
    /\ resolved.again = resolved.key
    /\ ~resolved.path.outside

(***************************************************************************)
(* The path a written reference shows                                      *)
(***************************************************************************)
\* C28: with a local file adapter, the path a written reference shows after
\* 'Written to file: ' is the file:// location of the file adapter.write
\* stored the record in: the base directory joined with the key.
C28_ReferencePointsAtFile ==
    (Returned(last) /\ options.adapter.cls \in {"LocalFileAdapter", "FileAdapter"}) =>
        \A w \in last.written :
            LET out == messages[w.i + 1].content.parts[w.j].output
                file == fullPath(options.adapter, w.key)
            IN /\ file \in DOMAIN storage
               /\ IsString(Get(out, "value"))
               /\ StartsWith(Get(out, "value").s,
                             <<"Written to file:", " ", "file://">> \o file \o <<". Key: ">>)

WrittenAt(i, j) == \E w \in last.written : w.i = i /\ w.j = j

\* the part at message x (1-based), part j carries the output it had before the call
KeptAt(x, j) ==
    last.value[x].content.parts[j].output = last.input[x].content.parts[j].output

\* the part at message x, part j carries the written reference of its tool's file
ReplacedAt(x, j) ==
    last.value[x].content.parts[j].output =
        TextOutput(WrittenReference(
            adapterToString(options.adapter),
            resolveKey(options.adapter, toolFileName(last.input[x].content.parts[j]))))

\* the output is missing or its unwrapped value is falsy
EmptyOutput(output) == ~Truthy(output) \/ ~Truthy(unwrapOutput(output))

====
